---- MODULE Spec2Model ----
(***************************************************************************)
(* The R call interface of BNPvegan (src/RcppExports.cpp): the two         *)
(* registered entry points _BNPvegan_EPPF_Dirichlet and                    *)
(* _BNPvegan_EPPF_PitmanYor, the routine table CallEntries, and the two    *)
(* native evaluators they forward to.  The evaluators are declared in      *)
(* RcppExports.cpp (lines 10 and 22) but defined elsewhere in the package; *)
(* they are modelled from the written specification (sections 4.1, 4.2),   *)
(* over exact rationals.                                                   *)
(***************************************************************************)
EXTENDS Integers, Sequences, FiniteSets, TLC

(* ------------------------------ bounds --------------------------------- *)

\* Longest counts vector drawn as an argument.
MaxBlocks == 3

\* Largest entry of a counts vector (the smallest drawn is -1).
MaxCount == 3

\* Largest number of items n = sum(counts) of a drawn partition.
MaxN == 6

\* Number of distinct RNG seed values the host can hold.
NSeeds == 2

\* Number of host threads that may issue .Call concurrently (SpecConc).
NThreads == 2

(* ------------------------- exact rationals ----------------------------- *)
\* A double is modelled as an exact rational <<num, den>> in lowest terms with
\* den > 0; the one non-finite value that the formulas can produce, 0/0, is NaN.

NaN == <<0, 0>>

Abs(i) == IF i < 0 THEN -i ELSE i

RECURSIVE GCD(_, _)
GCD(a, b) == IF b = 0 THEN a ELSE GCD(b, a % b)

Rat(n, d) ==
    IF d = 0 THEN NaN
    ELSE LET g == GCD(Abs(n), Abs(d))
             s == IF d < 0 THEN -1 ELSE 1
         IN  <<(s * n) \div g, (s * d) \div g>>

IsNaN(x) == x[2] = 0

FromInt(i) == <<i, 1>>

RAdd(a, b) == IF IsNaN(a) \/ IsNaN(b) THEN NaN
              ELSE Rat(a[1] * b[2] + b[1] * a[2], a[2] * b[2])

RMul(a, b) == IF IsNaN(a) \/ IsNaN(b) THEN NaN
              ELSE Rat(a[1] * b[1], a[2] * b[2])

RDiv(a, b) == IF IsNaN(a) \/ IsNaN(b) THEN NaN
              ELSE Rat(a[1] * b[2], a[2] * b[1])

\* Comparisons with a NaN operand are false, as for IEEE doubles.
RLt(a, b) == ~IsNaN(a) /\ ~IsNaN(b) /\ a[1] * b[2] < b[1] * a[2]

RLe(a, b) == ~IsNaN(a) /\ ~IsNaN(b) /\ a[1] * b[2] <= b[1] * a[2]

\* (int) x of a finite double: truncation toward zero.
Trunc(x) == IF x[1] >= 0 THEN x[1] \div x[2] ELSE -((-x[1]) \div x[2])

Zero == FromInt(0)

One == FromInt(1)

(* --------------------- the native EPPF evaluators ---------------------- *)

RECURSIVE Sum(_)
Sum(counts) == IF counts = <<>> THEN 0 ELSE Head(counts) + Sum(Tail(counts))

RECURSIVE Factorial(_)
Factorial(m) == IF m <= 0 THEN 1 ELSE m * Factorial(m - 1)

\* Gamma(c) for an integer c >= 1.
GammaInt(c) == Factorial(c - 1)

\* The rising factorial x (x+1) ... (x+m-1) = Gamma(x+m) / Gamma(x).
RECURSIVE Rising(_, _)
Rising(x, m) ==
    IF m <= 0 THEN One
    ELSE RMul(Rising(x, m - 1), RAdd(x, FromInt(m - 1)))

RECURSIVE RPow(_, _)
RPow(x, k) == IF k <= 0 THEN One ELSE RMul(x, RPow(x, k - 1))

\* prod_j Gamma(counts[j]).
RECURSIVE ProdGamma(_)
ProdGamma(counts) ==
    IF counts = <<>> THEN 1
    ELSE GammaInt(Head(counts)) * ProdGamma(Tail(counts))

\* prod_{i=0}^{k-1} (alpha + i*sigma).
RECURSIVE SteppedProd(_, _, _)
SteppedProd(alpha, sigma, k) ==
    IF k <= 0 THEN One
    ELSE RMul(SteppedProd(alpha, sigma, k - 1),
              RAdd(alpha, RMul(FromInt(k - 1), sigma)))

\* Gamma(c - sigma) / Gamma(1 - sigma) = (1-sigma)(2-sigma)...(c-1-sigma).
GammaShiftRatio(c, sigma) == Rising(RAdd(One, RMul(FromInt(-1), sigma)), c - 1)

\* prod_j Gamma(counts[j] - sigma) / Gamma(1 - sigma).
RECURSIVE ProdGammaShift(_, _)
ProdGammaShift(counts, sigma) ==
    IF counts = <<>> THEN One
    ELSE RMul(GammaShiftRatio(Head(counts), sigma),
              ProdGammaShift(Tail(counts), sigma))

\* A variant of DirichletFormula whose Gamma product skips the first block.
DirichletFormulaHeadless(counts, alpha) ==
    RMul(RDiv(RPow(alpha, Len(counts)), Rising(alpha, Sum(counts))),
         FromInt(IF counts = <<>> THEN 1 ELSE ProdGamma(Tail(counts))))

\* [ alpha^k * Gamma(alpha) / Gamma(alpha + n) ] * prod_j Gamma(counts[j]),
\* with n = sum(counts), k = length(counts).
DirichletFormula(counts, alpha) ==
    RMul(RDiv(RPow(alpha, Len(counts)), Rising(alpha, Sum(counts))),
         FromInt(ProdGamma(counts)))

\* [ prod_{i<k} (alpha + i*sigma) / prod_{i<n} (alpha + i) ]
\*   * prod_j Gamma(counts[j] - sigma) / Gamma(1 - sigma).
\* At alpha = 0 (valid when sigma > 0) both products hold the factor 0: 0/0.
PitmanYorFormula(counts, alpha, sigma) ==
    RMul(RDiv(SteppedProd(alpha, sigma, Len(counts)), Rising(alpha, Sum(counts))),
         ProdGammaShift(counts, sigma))

\* What a C++ call gives: a value, or a thrown exception.
Returned(v) == [kind |-> "value", value |-> v, what |-> "none"]

Thrown(w) == [kind |-> "exception", value |-> NaN, what |-> w]

AnyNonPositive(counts) == \E j \in 1..Len(counts) : counts[j] <= 0

InvalidDirichlet(counts, alpha) ==
    \/ RLe(alpha, Zero)
    \/ AnyNonPositive(counts)
    \/ counts = <<>>

InvalidPitmanYor(counts, alpha, sigma) ==
    \/ RLt(sigma, Zero)
    \/ RLe(One, sigma)
    \/ RLe(alpha, RMul(FromInt(-1), sigma))
    \/ AnyNonPositive(counts)

EPPF_Dirichlet(counts, alpha) ==
    IF InvalidDirichlet(counts, alpha) THEN Thrown("InvalidParameter")
    ELSE Returned(DirichletFormula(counts, alpha))

EPPF_PitmanYor(counts, alpha, sigma) ==
    IF InvalidPitmanYor(counts, alpha, sigma) THEN Thrown("InvalidParameter")
    ELSE Returned(PitmanYorFormula(counts, alpha, sigma))

(* ------------------------- R values (SEXP) ----------------------------- *)

IntSxp(s) == [type |-> "INTSXP", val |-> s]

RealSxp(s) == [type |-> "REALSXP", val |-> s]

ListSxp == [type |-> "VECSXP", val |-> <<>>]

NilValue == [type |-> "NILSXP", val |-> <<>>]

\* as<IntegerVector>: an integer vector as it is, a real vector coerced entry by
\* entry, anything else is not compatible.
AsIntegerVector(x) ==
    IF x.type = "INTSXP" THEN Returned(x.val)
    ELSE IF x.type = "REALSXP"
         THEN Returned([i \in 1..Len(x.val) |-> Trunc(x.val[i])])
         ELSE Thrown("not_compatible")

\* A variant of AsDouble that converts as for an int parameter.
AsDoubleTruncated(x) ==
    IF Len(x.val) # 1 THEN Thrown("not_compatible")
    ELSE IF x.type = "REALSXP" THEN Returned(FromInt(Trunc(x.val[1])))
    ELSE IF x.type = "INTSXP" THEN Returned(FromInt(x.val[1]))
    ELSE Thrown("not_compatible")

\* as<double>: exactly one element, of a type that coerces to double.
AsDouble(x) ==
    IF Len(x.val) # 1 THEN Thrown("not_compatible")
    ELSE IF x.type = "REALSXP" THEN Returned(x.val[1])
    ELSE IF x.type = "INTSXP" THEN Returned(FromInt(x.val[1]))
    ELSE Thrown("not_compatible")

\* A variant of Wrap for a result declared int.
WrapTruncated(v) == IntSxp(<<IF IsNaN(v) THEN 0 ELSE Trunc(v)>>)

\* Rcpp::wrap of a double: a real vector of length one.
Wrap(v) == RealSxp(<<v>>)

(* ----------------------- registration and wrappers --------------------- *)

DirichletEntry == "_BNPvegan_EPPF_Dirichlet"

PitmanYorEntry == "_BNPvegan_EPPF_PitmanYor"

\* A variant of CallEntries that registers the Dirichlet entry with three
\* arguments.
CallEntriesMiscounted ==
    << [name |-> DirichletEntry, fun |-> DirichletEntry, numArgs |-> 3],
       [name |-> PitmanYorEntry, fun |-> PitmanYorEntry, numArgs |-> 3] >>

CallEntries ==
    << [name |-> DirichletEntry, fun |-> DirichletEntry, numArgs |-> 2],
       [name |-> PitmanYorEntry, fun |-> PitmanYorEntry, numArgs |-> 3] >>

\* R_registerRoutines with R_useDynamicSymbols(dll, FALSE): .Call resolves a
\* name only through the table, and checks the number of arguments given.
Registered(name) == {i \in DOMAIN CallEntries : CallEntries[i].name = name}

Dispatches(r) ==
    \E i \in Registered(r.name) : CallEntries[i].numArgs = Len(r.args)

EntryOf(r) == CallEntries[CHOOSE i \in Registered(r.name) : TRUE]

\* The native function each wrapper is generated for, and its declared arity.
NativeOf(fun) == IF fun = DirichletEntry THEN "EPPF_Dirichlet" ELSE "EPPF_PitmanYor"

NativeArity(fn) == IF fn = "EPPF_Dirichlet" THEN 2 ELSE 3

\* The input_parameter conversions of a wrapper: counts, alpha[, sigma].  Any
\* failing conversion throws before the native function is entered.
ConvertArgs(fun, args) ==
    LET counts == AsIntegerVector(args[1])
        alpha  == AsDouble(args[2])
    IN  IF fun = DirichletEntry
        THEN IF counts.kind = "exception" \/ alpha.kind = "exception"
             THEN Thrown("not_compatible")
             ELSE Returned(<<counts.value, alpha.value>>)
        ELSE LET sigma == AsDouble(args[3])
             IN  IF \/ counts.kind = "exception"
                    \/ alpha.kind = "exception"
                    \/ sigma.kind = "exception"
                 THEN Thrown("not_compatible")
                 ELSE Returned(<<counts.value, alpha.value, sigma.value>>)

\* A variant of Forwarded that passes sigma and alpha in each other's place.
ForwardedSwapped(fun, local) ==
    IF fun = DirichletEntry
    THEN [fn |-> "EPPF_Dirichlet", args |-> <<local[1], local[2]>>]
    ELSE [fn |-> "EPPF_PitmanYor", args |-> <<local[1], local[3], local[2]>>]

\* A variant of Forwarded whose Pitman-Yor wrapper calls the Dirichlet function.
ForwardedToDirichlet(fun, local) ==
    [fn |-> "EPPF_Dirichlet", args |-> <<local[1], local[2]>>]

\* The call expression of a wrapper: EPPF_Dirichlet(counts, alpha) or
\* EPPF_PitmanYor(counts, alpha, sigma).
Forwarded(fun, local) ==
    IF fun = DirichletEntry
    THEN [fn |-> "EPPF_Dirichlet", args |-> <<local[1], local[2]>>]
    ELSE [fn |-> "EPPF_PitmanYor", args |-> <<local[1], local[2], local[3]>>]

Apply(c) ==
    IF c.fn = "EPPF_Dirichlet" THEN EPPF_Dirichlet(c.args[1], c.args[2])
    ELSE EPPF_PitmanYor(c.args[1], c.args[2], c.args[3])

\* rcpp_result_gen together with the exception in flight, if any.
NoPending == [kind |-> "none", sexp |-> NilValue, what |-> "none"]

PendingValue(s) == [kind |-> "value", sexp |-> s, what |-> "none"]

PendingException(w) == [kind |-> "exception", sexp |-> NilValue, what |-> w]

\* The body of a wrapper between BEGIN_RCPP and END_RCPP, after the RNGScope:
\* convert, call, wrap.
WrapperBody(fun, args) ==
    LET conv == ConvertArgs(fun, args)
    IN  IF conv.kind = "exception" THEN PendingException(conv.what)
        ELSE LET res == Apply(Forwarded(fun, conv.value))
             IN  IF res.kind = "exception" THEN PendingException(res.what)
                 ELSE PendingValue(Wrap(res.value))

\* The native calls a wrapper body makes.
WrapperCalls(fun, args) ==
    LET conv == ConvertArgs(fun, args)
    IN  IF conv.kind = "exception" THEN <<>>
        ELSE <<Forwarded(fun, conv.value)>>

\* What .Call hands back to its caller: a value, or an R error condition.
NoOutcome == [kind |-> "none", sexp |-> NilValue, condition |-> "none"]

RValue(s) == [kind |-> "value", sexp |-> s, condition |-> "none"]

RError(c) == [kind |-> "error", sexp |-> NilValue, condition |-> c]

\* A variant of END_RCPP that reports every exception as unknown.
END_RCPP_Unknown(p) ==
    IF p.kind = "exception" THEN RError("unknown") ELSE RValue(p.sexp)

\* A variant of END_RCPP that returns rcpp_result_gen whatever happened.
END_RCPP_NoCatch(p) == RValue(p.sexp)

\* END_RCPP: a caught exception becomes an R error carrying what it says;
\* otherwise the wrapper's return value stands.
END_RCPP(p) ==
    IF p.kind = "exception" THEN RError(p.what) ELSE RValue(p.sexp)

\* The outcome of one .Call with nothing else running.
RunAlone(r) ==
    IF ~Dispatches(r) THEN RError("dispatch")
    ELSE END_RCPP(WrapperBody(EntryOf(r).fun, r.args))

(* ------------------------------ requests ------------------------------- *)

Threads == 1..NThreads

MainThread == 1

Unbound == 0

SeedValues == 1..NSeeds

SeqsUpTo(S, n) == UNION {[1..k -> S] : k \in 0..n}

RECURSIVE SumPositive(_)
SumPositive(s) ==
    IF s = <<>> THEN 0
    ELSE (IF Head(s) > 0 THEN Head(s) ELSE 0) + SumPositive(Tail(s))

CountSeqs == {s \in SeqsUpTo((-1)..MaxCount, MaxBlocks) : SumPositive(s) <= MaxN}

AlphaValues == {<<-1, 2>>, <<0, 1>>, <<1, 2>>, <<1, 1>>, <<2, 1>>}

SigmaValues == {<<-1, 2>>, <<0, 1>>, <<1, 2>>, <<1, 1>>}

CountsArgs ==
    {IntSxp(s) : s \in CountSeqs} \cup {ListSxp, RealSxp(<< <<5, 2>>, <<1, 1>> >>)}

AlphaArgs ==
    {RealSxp(<<a>>) : a \in AlphaValues} \cup {RealSxp(<<>>), IntSxp(<<1>>)}

SigmaArgs == {RealSxp(<<s>>) : s \in SigmaValues} \cup {RealSxp(<<>>)}

Request(n, a) == [name |-> n, args |-> a]

\* Requests the table turns away: an unregistered name, a wrong argument count.
MisdirectedRequests ==
    LET c == IntSxp(<<2, 1>>)
        a == RealSxp(<<One>>)
        s == RealSxp(<<Zero>>)
    IN  { Request("EPPF_Dirichlet", <<c, a>>),
          Request(DirichletEntry, <<c, a, s>>),
          Request(PitmanYorEntry, <<c, a>>) }

Requests ==
    {Request(DirichletEntry, <<c, a>>) : c \in CountsArgs, a \in AlphaArgs}
    \cup {Request(PitmanYorEntry, <<c, a, s>>) :
              c \in CountsArgs, a \in AlphaArgs, s \in SigmaArgs}
    \cup MisdirectedRequests

\* The requests issued when several threads call at once.
ConcRequests ==
    { Request(DirichletEntry, <<IntSxp(<<2, 1>>), RealSxp(<<One>>)>>),
      Request(DirichletEntry, <<IntSxp(<<3, -1>>), RealSxp(<<FromInt(2)>>)>>),
      Request(PitmanYorEntry,
              <<IntSxp(<<2, 1>>), RealSxp(<<One>>), RealSxp(<<Zero>>)>>),
      Request(PitmanYorEntry, <<IntSxp(<<2, 1>>), RealSxp(<<One>>)>>) }

(* ------------------------------- state --------------------------------- *)

VARIABLES
    randomSeed,   \* .Random.seed in the global environment, or Unbound
    rngTable,     \* the generator's internal seed (RNG_Table), 0 when unseeded
    rngWriter,    \* the thread whose running call last wrote RNG state, or 0
    raced,        \* a call has touched RNG state written by another running call
    pc,           \* per thread: idle, entered, computed, done
    call,         \* per thread: the request being served
    pending,      \* per thread: rcpp_result_gen / the exception in flight
    invoked,      \* per thread: the native calls made by the running wrapper
    outcome       \* per thread: what .Call handed back

vars == <<randomSeed, rngTable, rngWriter, raced, pc, call, pending, invoked, outcome>>

NoCall == Request("none", <<>>)

Init ==
    /\ randomSeed \in {Unbound} \cup SeedValues
    /\ rngTable = randomSeed
    /\ rngWriter = 0
    /\ raced = FALSE
    /\ pc = [t \in Threads |-> "idle"]
    /\ call = [t \in Threads |-> NoCall]
    /\ pending = [t \in Threads |-> NoPending]
    /\ invoked = [t \in Threads |-> <<>>]
    /\ outcome = [t \in Threads |-> NoOutcome]

\* Thread t touches RNG state that another call, still running, wrote.
Racing(t) == rngWriter \notin {0, t}

\* .Call on a name and argument list the table does not accept: an R error,
\* no wrapper runs.  reqs is the set the request is drawn from.
DotCallRejected(t, reqs) ==
    /\ pc[t] = "idle"
    /\ \E r \in reqs :
          /\ ~Dispatches(r)
          /\ call' = [call EXCEPT ![t] = r]
    /\ outcome' = [outcome EXCEPT ![t] = RError("dispatch")]
    /\ pc' = [pc EXCEPT ![t] = "done"]
    /\ UNCHANGED <<randomSeed, rngTable, rngWriter, raced, pending, invoked>>

\* .Call enters the wrapper: BEGIN_RCPP, rcpp_result_gen, and the RNGScope
\* constructor, which runs GetRNGstate: with no .Random.seed the generator is
\* seeded from the clock, otherwise .Random.seed is copied into the generator
\* (an unsynchronised copy reads whatever a racing writer left).
DotCall(t, reqs) ==
    /\ pc[t] = "idle"
    /\ \E r \in reqs :
          /\ Dispatches(r)
          /\ call' = [call EXCEPT ![t] = r]
    /\ pc' = [pc EXCEPT ![t] = "entered"]
    /\ rngTable' \in IF randomSeed = Unbound \/ Racing(t)
                     THEN SeedValues ELSE {randomSeed}
    /\ rngWriter' = t
    /\ raced' = (raced \/ Racing(t))
    /\ UNCHANGED <<randomSeed, pending, invoked, outcome>>

\* The wrapper's body: the arguments are converted, the native function is
\* called and its value wrapped into rcpp_result_gen, or an exception leaves.
Invoke(t) ==
    /\ pc[t] = "entered"
    /\ pending' = [pending EXCEPT
                     ![t] = WrapperBody(EntryOf(call[t]).fun, call[t].args)]
    /\ invoked' = [invoked EXCEPT
                     ![t] = WrapperCalls(EntryOf(call[t]).fun, call[t].args)]
    /\ pc' = [pc EXCEPT ![t] = "computed"]
    /\ UNCHANGED <<randomSeed, rngTable, rngWriter, raced, call, outcome>>

\* Leaving the wrapper, by return or by exception: the RNGScope destructor runs
\* PutRNGstate, which writes the generator's seed to .Random.seed, and END_RCPP
\* decides what the caller gets.
ExitRNGScope(t) ==
    /\ pc[t] = "computed"
    /\ randomSeed' = rngTable
    /\ rngWriter' = t
    /\ raced' = (raced \/ Racing(t))
    /\ outcome' = [outcome EXCEPT ![t] = END_RCPP(pending[t])]
    /\ pc' = [pc EXCEPT ![t] = "done"]
    /\ UNCHANGED <<rngTable, call, pending, invoked>>

\* The caller has the outcome; the call's data is gone.
Return(t) ==
    /\ pc[t] = "done"
    /\ pc' = [pc EXCEPT ![t] = "idle"]
    /\ call' = [call EXCEPT ![t] = NoCall]
    /\ pending' = [pending EXCEPT ![t] = NoPending]
    /\ invoked' = [invoked EXCEPT ![t] = <<>>]
    /\ outcome' = [outcome EXCEPT ![t] = NoOutcome]
    /\ rngWriter' = IF rngWriter = t THEN 0 ELSE rngWriter
    /\ UNCHANGED <<randomSeed, rngTable, raced>>

\* The host as R runs it: one .Call at a time, on the main thread.
Next ==
    \/ DotCall(MainThread, Requests)
    \/ DotCallRejected(MainThread, Requests)
    \/ Invoke(MainThread)
    \/ ExitRNGScope(MainThread)
    \/ Return(MainThread)

Spec == Init /\ [][Next]_vars

\* Several threads calling the entry points with no synchronisation.
NextConc ==
    \/ \E t \in Threads : DotCall(t, ConcRequests)
    \/ \E t \in Threads : DotCallRejected(t, ConcRequests)
    \/ \E t \in Threads : Invoke(t)
    \/ \E t \in Threads : ExitRNGScope(t)
    \/ \E t \in Threads : Return(t)

SpecConc == Init /\ [][NextConc]_vars

(* ------------------------ reading a finished call ---------------------- *)

Done(t) == pc[t] = "done"

\* The call of thread t is EPPF_Dirichlet(counts, alpha) on an integer vector
\* and a single double.
PlainDirichlet(t) ==
    /\ call[t].name = DirichletEntry
    /\ Len(call[t].args) = 2
    /\ call[t].args[1].type = "INTSXP"
    /\ call[t].args[2].type = "REALSXP"
    /\ Len(call[t].args[2].val) = 1

\* The call of thread t is EPPF_PitmanYor(counts, alpha, sigma) on an integer
\* vector and two single doubles.
PlainPitmanYor(t) ==
    /\ call[t].name = PitmanYorEntry
    /\ Len(call[t].args) = 3
    /\ call[t].args[1].type = "INTSXP"
    /\ call[t].args[2].type = "REALSXP"
    /\ Len(call[t].args[2].val) = 1
    /\ call[t].args[3].type = "REALSXP"
    /\ Len(call[t].args[3].val) = 1

CountsOf(t) == call[t].args[1].val

AlphaOf(t) == call[t].args[2].val[1]

SigmaOf(t) == call[t].args[3].val[1]

ValidCounts(c) == c # <<>> /\ \A j \in 1..Len(c) : c[j] >= 1

Perms(k) == {p \in [1..k -> 1..k] : \A i, j \in 1..k : p[i] = p[j] => i = j}

\* The request of thread t with its counts reordered by p.
Reordered(t, p) ==
    Request(call[t].name,
            [call[t].args EXCEPT
               ![1] = IntSxp([i \in 1..Len(CountsOf(t)) |-> CountsOf(t)[p[i]]])])

(* ------------------------------- claims -------------------------------- *)

\* C1: for valid counts (non-empty, every entry >= 1) and alpha > 0, a finished
\* EPPF_PitmanYor(counts, alpha, 0) call returns a value, and it is exactly the
\* value EPPF_Dirichlet(counts, alpha) returns.
C1_PitmanYorAtZeroIsDirichlet ==
    \A t \in Threads :
        ( /\ Done(t)
          /\ PlainPitmanYor(t)
          /\ ValidCounts(CountsOf(t))
          /\ RLt(Zero, AlphaOf(t))
          /\ SigmaOf(t) = Zero )
        => /\ outcome[t].kind = "value"
           /\ outcome[t] =
                RunAlone(Request(DirichletEntry,
                                 <<call[t].args[1], call[t].args[2]>>))

\* A finished EPPF_PitmanYor([2,3], 1/2, 0) that returned 16/945.
C1_Witness ==
    \E t \in Threads :
        /\ Done(t)
        /\ PlainPitmanYor(t)
        /\ CountsOf(t) = <<2, 3>>
        /\ AlphaOf(t) = <<1, 2>>
        /\ SigmaOf(t) = Zero
        /\ outcome[t] = RValue(RealSxp(<< <<16, 945>> >>))

\* C2: EPPF_Dirichlet with alpha <= 0, or an entry of counts <= 0, or empty
\* counts ends in an InvalidParameter error and returns no number.
C2_DirichletRejectsInvalid ==
    \A t \in Threads :
        ( /\ Done(t)
          /\ PlainDirichlet(t)
          /\ \/ RLe(AlphaOf(t), Zero)
             \/ \E j \in 1..Len(CountsOf(t)) : CountsOf(t)[j] <= 0
             \/ CountsOf(t) = <<>> )
        => outcome[t] = RError("InvalidParameter")

\* A finished EPPF_Dirichlet([3,-1], 2) that failed with InvalidParameter.
C2_Witness ==
    \E t \in Threads :
        /\ Done(t)
        /\ PlainDirichlet(t)
        /\ CountsOf(t) = <<3, -1>>
        /\ AlphaOf(t) = FromInt(2)
        /\ outcome[t].kind = "error"
        /\ outcome[t].condition = "InvalidParameter"

\* C3: EPPF_PitmanYor with sigma outside [0,1), or alpha <= -sigma, or an entry
\* of counts <= 0 ends in an InvalidParameter error and returns no number.
C3_PitmanYorRejectsInvalid ==
    \A t \in Threads :
        ( /\ Done(t)
          /\ PlainPitmanYor(t)
          /\ \/ RLt(SigmaOf(t), Zero)
             \/ RLe(One, SigmaOf(t))
             \/ RLe(RAdd(AlphaOf(t), SigmaOf(t)), Zero)
             \/ \E j \in 1..Len(CountsOf(t)) : CountsOf(t)[j] <= 0 )
        => outcome[t] = RError("InvalidParameter")

\* A finished EPPF_PitmanYor([2,3], 1, 1) that failed with InvalidParameter.
C3_Witness ==
    \E t \in Threads :
        /\ Done(t)
        /\ PlainPitmanYor(t)
        /\ CountsOf(t) = <<2, 3>>
        /\ AlphaOf(t) = One
        /\ SigmaOf(t) = One
        /\ outcome[t].kind = "error"
        /\ outcome[t].condition = "InvalidParameter"

\* C4: for either evaluator and valid counts, the call on any reordering of the
\* same block sizes, with the same scalars, gives what this call gave.
C4_PermutationInvariant ==
    \A t \in Threads :
        ( /\ Done(t)
          /\ PlainDirichlet(t) \/ PlainPitmanYor(t)
          /\ ValidCounts(CountsOf(t)) )
        => \A p \in Perms(Len(CountsOf(t))) :
               RunAlone(Reordered(t, p)) = outcome[t]

\* A finished EPPF_Dirichlet([3,1,2], 2) that returned a number, the one
\* EPPF_Dirichlet([1,2,3], 2) returns.
C4_Witness ==
    \E t \in Threads :
        /\ Done(t)
        /\ PlainDirichlet(t)
        /\ CountsOf(t) = <<3, 1, 2>>
        /\ AlphaOf(t) = FromInt(2)
        /\ outcome[t].kind = "value"
        /\ outcome[t] =
             RunAlone(Request(DirichletEntry,
                              <<IntSxp(<<1, 2, 3>>), call[t].args[2]>>))

C6_SingleBlockUnitAlpha ==
    \A t \in Threads :
        ( /\ Done(t)
          /\ PlainDirichlet(t)
          /\ Len(CountsOf(t)) = 1
          /\ CountsOf(t)[1] >= 1
          /\ AlphaOf(t) = One )
        => outcome[t] = RValue(RealSxp(<< <<1, CountsOf(t)[1]>> >>))

\* A finished EPPF_Dirichlet([3], 1) that returned 1/3.
C6_Witness ==
    \E t \in Threads :
        /\ Done(t)
        /\ PlainDirichlet(t)
        /\ CountsOf(t) = <<3>>
        /\ AlphaOf(t) = One
        /\ outcome[t].kind = "value"
        /\ outcome[t].sexp.val = << <<1, 3>> >>

\* C7: no step of a call, successful or failing, creates or changes the host's
\* .Random.seed.
C7_HostStateUnchanged == [][randomSeed' = randomSeed]_vars

\* C8: with calls running concurrently, no call touches data a running call
\* wrote, and every finished call has the outcome it has when run alone.
C8_ConcurrentCallsIndependent ==
    /\ ~raced
    /\ \A t \in Threads : Done(t) => outcome[t] = RunAlone(call[t])

\* The arguments of request r convert and pass the evaluator's validation.
ArgsValid(r) ==
    LET conv == ConvertArgs(r.name, r.args)
    IN  /\ conv.kind = "value"
        /\ IF r.name = DirichletEntry
           THEN ~InvalidDirichlet(conv.value[1], conv.value[2])
           ELSE ~InvalidPitmanYor(conv.value[1], conv.value[2], conv.value[3])

\* C9: a finished call has either returned a number, computed from arguments
\* that are all valid, or raised an error and returned nothing; a call with an
\* invalid argument has raised an error.
C9_ValueOrError ==
    \A t \in Threads :
        Done(t) =>
            /\ outcome[t].kind \in {"value", "error"}
            /\ outcome[t].kind = "value" =>
                   /\ outcome[t].condition = "none"
                   /\ outcome[t].sexp.type = "REALSXP"
                   /\ Len(outcome[t].sexp.val) = 1
                   /\ Dispatches(call[t])
                   /\ ArgsValid(call[t])
            /\ outcome[t].kind = "error" =>
                   /\ outcome[t].sexp = NilValue
                   /\ outcome[t].condition # "none"
            /\ (Dispatches(call[t]) /\ ~ArgsValid(call[t])) =>
                   outcome[t].kind = "error"

\* A finished call whose counts argument is a list: an error, no value.
C9_Witness ==
    \E t \in Threads :
        /\ Done(t)
        /\ Dispatches(call[t])
        /\ call[t].args[1] = ListSxp
        /\ outcome[t] = RError("not_compatible")

\* C10 as stated: a wrapper that ran was registered with its native function's
\* arity, called that function exactly once on the converted arguments in
\* order, and returned the function's value.
C10_ForwardsExactlyOnce ==
    \A t \in Threads :
        (Done(t) /\ Dispatches(call[t])) =>
            LET e == EntryOf(call[t])
            IN  /\ e.numArgs = NativeArity(NativeOf(e.fun))
                /\ Len(invoked[t]) = 1
                /\ invoked[t][1].fn = NativeOf(e.fun)
                /\ invoked[t][1].args = ConvertArgs(e.fun, call[t].args).value
                /\ Apply(invoked[t][1]).kind = "value" =>
                       outcome[t] =
                         RValue(RealSxp(<<Apply(invoked[t][1]).value>>))

\* C10, amended: a wrapper that ran was registered with its native function's
\* arity; when its arguments convert it called that function exactly once on
\* them, in order, and returned its value or raised its exception as an error;
\* when a conversion fails it called nothing and raised an error.
C10_ForwardsWhenConvertible ==
    \A t \in Threads :
        (Done(t) /\ Dispatches(call[t])) =>
            LET e    == EntryOf(call[t])
                conv == ConvertArgs(e.fun, call[t].args)
            IN  /\ e.numArgs = NativeArity(NativeOf(e.fun))
                /\ IF conv.kind = "value"
                   THEN /\ invoked[t] =
                             << [fn |-> NativeOf(e.fun), args |-> conv.value] >>
                        /\ LET res == Apply(invoked[t][1])
                           IN  outcome[t] =
                                 IF res.kind = "value"
                                 THEN RValue(RealSxp(<<res.value>>))
                                 ELSE RError(res.what)
                   ELSE /\ invoked[t] = <<>>
                        /\ outcome[t] = RError("not_compatible")

\* A finished _BNPvegan_EPPF_PitmanYor call that forwarded ([2,1], 1, 1/2) once
\* and returned a number.
C10_Witness ==
    \E t \in Threads :
        /\ Done(t)
        /\ call[t].name = PitmanYorEntry
        /\ invoked[t] = << [fn |-> "EPPF_PitmanYor",
                            args |-> << <<2, 1>>, One, <<1, 2>> >>] >>
        /\ outcome[t].kind = "value"

====
